---- MODULE Spec2Model ----
(***************************************************************************)
(* A model of scripts/relgen.py, the release-note generator: one process   *)
(* that reads a credential, prompts for a commit count, reads the git log, *)
(* increments versionCode in android/app/build.gradle, asks the Gemini     *)
(* service for tagged release notes, parses them and writes                *)
(* latest-release-note.txt.                                                *)
(*                                                                         *)
(* Texts are sequences of tokens.  A token is a one-character string, or   *)
(* one of the literal words the program's patterns look for (the keyword   *)
(* versionCode, the six language tags), taken as a unit.  The platform is  *)
(* POSIX: os.linesep is a single line feed.                                *)
(***************************************************************************)
EXTENDS Integers, Sequences, FiniteSets, TLC

VARIABLES
    pc,             \* position of main(): the step that runs next
    exitCode,       \* -1 while the process runs, then its exit code
    fatal,          \* the fatal condition that ended the run, or "none"
    userInput,      \* get_commit_count_from_user: the line input() returned
    numCommits,     \* main: num_commits (0 before the prompt returns)
    history,        \* the repository: commit subjects, most recent first
    gitArgs,        \* the counts get_last_commits was called with
    commits,        \* main: commits
    gradle,         \* android/app/build.gradle: [exists, content]
    gradleAtStart,  \* that file as it was when the process started
    stamped,        \* completed calls of increment_version_code
    apiCalls,       \* requests sent to the generation service
    fullResponse,   \* generate_and_translate_notes: full_response
    notes,          \* main: notes, a function from language codes to texts
    enNote,         \* main: en_note
    arNote,         \* main: ar_note
    trNote,         \* main: tr_note
    finalOutput,    \* main: final_output_string
    outFile,        \* latest-release-note.txt: [exists, content]
    outFileAtStart, \* that file as it was when the process started
    console         \* the formatted notes printed on stdout

vars == <<pc, exitCode, fatal, userInput, numCommits, history, gitArgs, commits,
          gradle, gradleAtStart, stamped, apiCalls, fullResponse, notes,
          enNote, arNote, trNote, finalOutput, outFile, outFileAtStart, console>>

(***************************************************************************)
(* Bounds of the model.                                                    *)
(***************************************************************************)
MaxInputLen == 2
MaxHistory == 3
MaxGradleLen == 4
MaxGradleSegs == 3
MaxRespLen == 3
MaxRespSegs == 3
MaxStampRuns == 2

(***************************************************************************)
(* Program constants.                                                      *)
(***************************************************************************)
DEFAULT_NUM_COMMITS == 5
LANG_TAG_EN == "<en-US>"
LANG_TAG_AR == "<ar>"
LANG_TAG_TR == "<tr-TR>"
END_TAG_EN == "</en-US>"
END_TAG_AR == "</ar>"
END_TAG_TR == "</tr-TR>"
VERSION_CODE == "versionCode"
LF == "\n"
CR == "\r"

(***************************************************************************)
(* Text helpers: Python's str and re primitives on token sequences.        *)
(***************************************************************************)
SeqsUpTo(S, n) == UNION {[1..k -> S] : k \in 0..n}

RECURSIVE Flatten(_)
Flatten(ss) == IF ss = <<>> THEN <<>> ELSE Head(ss) \o Flatten(Tail(ss))

Min(S) == CHOOSE x \in S : \A y \in S : x <= y

\* \s of re and the characters str.strip() removes, among the tokens in use
IsSpace(c) == c \in {" ", LF, CR}

\* \d of re
IsDigit(c) == c \in {"0", "1", "2", "3", "4", "5", "6", "7", "8", "9"}

\* \w of re: a letter, a digit or an underscore; the keyword ends in a letter
IsWordChar(c) == IsDigit(c) \/ c \in {"w", "a", "b", "x", "_", VERSION_CODE}

\* str.strip()
RECURSIVE LStrip(_)
LStrip(s) == IF s # <<>> /\ IsSpace(Head(s)) THEN LStrip(Tail(s)) ELSE s

RECURSIVE RStrip(_)
RStrip(s) ==
    IF s # <<>> /\ IsSpace(s[Len(s)]) THEN RStrip(SubSeq(s, 1, Len(s) - 1)) ELSE s

Strip(s) == RStrip(LStrip(s))

\* sep.join(parts)
RECURSIVE Join(_, _)
Join(parts, sep) ==
    IF parts = <<>> THEN <<>>
    ELSE IF Len(parts) = 1 THEN parts[1]
    ELSE parts[1] \o <<sep>> \o Join(Tail(parts), sep)

\* s.split(sep): never empty, "" splits to [""]
RECURSIVE Split(_, _)
Split(s, sep) ==
    IF \A i \in 1..Len(s) : s[i] # sep THEN <<s>>
    ELSE LET k == Min({i \in 1..Len(s) : s[i] = sep})
         IN  <<SubSeq(s, 1, k - 1)>> \o Split(SubSeq(s, k + 1, Len(s)), sep)

DigitVal(c) ==
    CASE c = "0" -> 0 [] c = "1" -> 1 [] c = "2" -> 2 [] c = "3" -> 3 [] c = "4" -> 4
      [] c = "5" -> 5 [] c = "6" -> 6 [] c = "7" -> 7 [] c = "8" -> 8 [] c = "9" -> 9

DigitChar(d) ==
    CASE d = 0 -> "0" [] d = 1 -> "1" [] d = 2 -> "2" [] d = 3 -> "3" [] d = 4 -> "4"
      [] d = 5 -> "5" [] d = 6 -> "6" [] d = 7 -> "7" [] d = 8 -> "8" [] d = 9 -> "9"

\* int() of a string of digits
RECURSIVE DigitsValue(_)
DigitsValue(ds) ==
    IF ds = <<>> THEN 0
    ELSE 10 * DigitsValue(SubSeq(ds, 1, Len(ds) - 1)) + DigitVal(ds[Len(ds)])

\* str() of a natural number (the f-string formatting of new_version_code)
RECURSIVE ToDigits(_)
ToDigits(n) == IF n < 10 THEN <<DigitChar(n)>> ELSE ToDigits(n \div 10) \o <<DigitChar(n % 10)>>

(***************************************************************************)
(* Version Stamper: increment_version_code.                                *)
(***************************************************************************)
\* open(file_path, 'r').read(): text mode with universal newlines turns
\* "\r\n" and a lone "\r" into "\n"
RECURSIVE ReadText(_)
ReadText(bytes) ==
    IF bytes = <<>> THEN <<>>
    ELSE IF Head(bytes) = CR
         THEN IF Len(bytes) >= 2 /\ bytes[2] = LF
              THEN <<LF>> \o ReadText(SubSeq(bytes, 3, Len(bytes)))
              ELSE <<LF>> \o ReadText(Tail(bytes))
         ELSE <<Head(bytes)>> \o ReadText(Tail(bytes))

\* open(file_path, 'w').write(): "\n" becomes os.linesep, which is "\n"
WriteText(text) == text

\* the last position of the run of whitespace that starts at i (i - 1 when empty)
SpaceRunEnd(text, i) ==
    CHOOSE j \in (i - 1)..Len(text) :
        /\ \A k \in i..j : IsSpace(text[k])
        /\ j = Len(text) \/ ~IsSpace(text[j + 1])

\* the last position of the run of digits that starts at i (i - 1 when empty)
DigitRunEnd(text, i) ==
    CHOOSE j \in (i - 1)..Len(text) :
        /\ \A k \in i..j : IsDigit(text[k])
        /\ j = Len(text) \/ ~IsDigit(text[j + 1])

\* the pattern (\bversionCode\s+(?:=)?\s*)(\d+) tried at position i: the
\* positions of the first and last digit of group 2, or <<>> for no match.
\* The character classes are disjoint, so backtracking finds nothing the
\* greedy match misses.
PatternAt(text, i) ==
    IF ~(text[i] = VERSION_CODE /\ (i = 1 \/ ~IsWordChar(text[i - 1]))) THEN <<>>
    ELSE LET s1 == SpaceRunEnd(text, i + 1)
             e  == IF s1 + 1 <= Len(text) /\ text[s1 + 1] = "=" THEN s1 + 1 ELSE s1
             s2 == SpaceRunEnd(text, e + 1)
             d  == DigitRunEnd(text, s2 + 1)
         IN  IF s1 >= i + 1 /\ d >= s2 + 1 THEN <<s2 + 1, d>> ELSE <<>>

\* re.search(pattern, content): the leftmost match, or <<>>
SearchVersionCode(text) ==
    LET hits == {i \in 1..Len(text) : PatternAt(text, i) # <<>>}
    IN  IF hits = {} THEN <<>> ELSE PatternAt(text, Min(hits))

\* a stamper that writes back the value it read
NewVersionCodeUnchanged(current) == current

\* new_version_code = current_version_code + 1
NewVersionCode(current) == current + 1

\* re.sub(pattern, rf'\g<1>{new_version_code}', content, count=1)
SubFirst(text, new) ==
    LET m == SearchVersionCode(text)
    IN  IF m = <<>> THEN text
        ELSE SubSeq(text, 1, m[1] - 1) \o ToDigits(new) \o SubSeq(text, m[2] + 1, Len(text))

\* int(match.group(2)) of the first match
CurrentVersionCode(text) ==
    LET m == SearchVersionCode(text) IN DigitsValue(SubSeq(text, m[1], m[2]))

\* the bytes increment_version_code leaves in the file when it succeeds
StampedBytes(bytes) ==
    LET content == ReadText(bytes)
    IN  WriteText(SubFirst(content, NewVersionCode(CurrentVersionCode(content))))

(***************************************************************************)
(* Console prompt: get_commit_count_from_user.                             *)
(***************************************************************************)
\* int(user_input) succeeds: optional surrounding whitespace, an optional
\* sign, then digits only
IsIntLiteral(s) ==
    LET t == Strip(s)
        u == IF t # <<>> /\ Head(t) \in {"+", "-"} THEN Tail(t) ELSE t
    IN  u # <<>> /\ \A i \in 1..Len(u) : IsDigit(u[i])

\* int(user_input) when it succeeds
IntValue(s) ==
    LET t == Strip(s)
    IN  IF Head(t) = "-" THEN 0 - DigitsValue(Tail(t))
        ELSE IF Head(t) = "+" THEN DigitsValue(Tail(t))
        ELSE DigitsValue(t)

\* a range check that lets 50 in
InRangeUpTo50(n) == n > 0 /\ n <= 50

\* num_commits > 0 and num_commits < 50
InRange(n) == n > 0 /\ n < 50

\* what one turn of the loop does with a line: the count it returns, or 0 to
\* prompt again
CountFromInput(s) ==
    IF s = <<>> THEN DEFAULT_NUM_COMMITS
    ELSE IF IsIntLiteral(s) /\ InRange(IntValue(s)) THEN IntValue(s)
    ELSE 0

(***************************************************************************)
(* Commit Source Reader: get_last_commits.                                 *)
(***************************************************************************)
\* a git log without its count
GitLogOutputWholeLog(n, log) == Join(log, LF)

\* stdout of git log -n --pretty=format:%s: the subjects of the n most
\* recent commits, one per line, no line break after the last
GitLogOutput(n, log) ==
    Join(SubSeq(log, 1, IF n < Len(log) THEN n ELSE Len(log)), LF)

IsBlank(line) == Strip(line) = <<>>

\* [commit for commit in commits if commit.strip()]
KeepCommit(line) == ~IsBlank(line)

\* the list get_last_commits returns when git succeeds
GetLastCommits(n, log) ==
    IF n <= 0 THEN <<>>
    ELSE SelectSeq(Split(Strip(GitLogOutput(n, log)), LF), KeepCommit)

(***************************************************************************)
(* Generation Client: generate_content_with_gemini.                        *)
(***************************************************************************)
\* "".join(part.text for part in parts if hasattr(part, 'text'))
RECURSIVE JoinParts(_)
JoinParts(parts) ==
    IF parts = <<>> THEN <<>>
    ELSE (IF Head(parts).hasText THEN Head(parts).text ELSE <<>>) \o JoinParts(Tail(parts))

\* the string the client returns for a reply of the service.  A reply is
\* [raises, textStatus, text, parts]: the call raising, how reading
\* response.text ends ("ok", "ValueError", "AttributeError"), its value, and
\* the first candidate's content parts (<<>> when there is none).  The value
\* "none" of the code's text_content is the <<"None">> here.
TextContent(reply) ==
    LET direct == IF reply.textStatus = "ok" /\ reply.text # <<>>
                  THEN Strip(reply.text) ELSE <<"None">>
    IN  IF direct = <<"None">> /\ reply.parts # <<>>
        THEN Strip(JoinParts(reply.parts))
        ELSE direct

GenerateContent(reply) ==
    IF reply.raises THEN <<>>
    ELSE IF TextContent(reply) = <<"None">> THEN <<>>
    ELSE TextContent(reply)

(***************************************************************************)
(* Response Parser: the second half of generate_and_translate_notes.       *)
(***************************************************************************)
Langs == {"en", "ar", "tr"}

StartTag(lang) ==
    CASE lang = "en" -> LANG_TAG_EN [] lang = "ar" -> LANG_TAG_AR [] lang = "tr" -> LANG_TAG_TR

\* LANG_TAG.replace("<", "</")
EndTag(lang) ==
    CASE lang = "en" -> END_TAG_EN [] lang = "ar" -> END_TAG_AR [] lang = "tr" -> END_TAG_TR

\* re.search(start(.*?)end, text, re.DOTALL): the positions of the start tag
\* and of the end tag of the leftmost match, whose capture ends at the first
\* end tag after the start; <<>> for no match
SearchBlock(text, lang) ==
    LET starts == {i \in 1..Len(text) :
                     /\ text[i] = StartTag(lang)
                     /\ \E j \in (i + 1)..Len(text) : text[j] = EndTag(lang)}
    IN  IF starts = {} THEN <<>>
        ELSE LET i == Min(starts)
             IN  <<i, Min({j \in (i + 1)..Len(text) : text[j] = EndTag(lang)})>>

\* match.group(1).strip()
Captured(text, lang) ==
    LET m == SearchBlock(text, lang) IN Strip(SubSeq(text, m[1] + 1, m[2] - 1))

\* a parser that stops at the first language it cannot find
ExtractedNotesInOrder(text) ==
    [lang \in {l \in Langs :
                 /\ SearchBlock(text, l) # <<>>
                 /\ l \in {"ar", "tr"} => SearchBlock(text, "en") # <<>>
                 /\ l = "tr" => SearchBlock(text, "ar") # <<>>} |-> Captured(text, lang)]

\* notes after the three searches
ExtractedNotes(text) ==
    [lang \in {l \in Langs : SearchBlock(text, l) # <<>>} |-> Captured(text, lang)]

EmptyBundle == [lang \in {} |-> <<>>]

\* a check of the key alone, which lets an empty English text pass
LacksEnglishKey(bundle) == "en" \notin DOMAIN bundle

\* 'en' not in notes or not notes['en']
LacksEnglish(bundle) == "en" \notin DOMAIN bundle \/ bundle["en"] = <<>>

\* what generate_and_translate_notes returns for the client's string
ParseNotes(full_response) ==
    IF full_response = <<>> THEN EmptyBundle
    ELSE IF LacksEnglish(ExtractedNotes(full_response)) THEN EmptyBundle
    ELSE ExtractedNotes(full_response)

(***************************************************************************)
(* Orchestrator: the pure parts of main.                                   *)
(***************************************************************************)
\* a main that does not check the bundle
NotesUnusableNever(bundle) == FALSE

\* not notes or 'en' not in notes or not notes['en']
NotesUnusable(bundle) == DOMAIN bundle = {} \/ LacksEnglish(bundle)

ERROR_EN_MISSING == <<"Error: English note missing.">>
ERROR_AR_MISSING == <<"Error: Arabic translation missing.">>
ERROR_TR_MISSING == <<"Error: Turkish translation missing.">>

\* dict.get(key, default)
DictGet(bundle, key, default) == IF key \in DOMAIN bundle THEN bundle[key] ELSE default

EnNote(bundle) == DictGet(bundle, "en", ERROR_EN_MISSING)

\* a fallback to the placeholder text instead of the English note
ArNoteNoFallback(bundle) == DictGet(bundle, "ar", ERROR_AR_MISSING)

ArNote(bundle) ==
    DictGet(bundle, "ar", IF "ar" \notin DOMAIN bundle THEN EnNote(bundle) ELSE ERROR_AR_MISSING)

TrNote(bundle) ==
    DictGet(bundle, "tr", IF "tr" \notin DOMAIN bundle THEN EnNote(bundle) ELSE ERROR_TR_MISSING)

\* '\n'.join(output_string_parts)
FinalOutputString(en, ar, tr) ==
    Join(<< <<LANG_TAG_EN>>, en, <<END_TAG_EN>>,
            <<LANG_TAG_AR>>, ar, <<END_TAG_AR>>,
            <<LANG_TAG_TR>>, tr, <<END_TAG_TR>> >>, LF)

(***************************************************************************)
(* The inputs the model draws from.                                        *)
(***************************************************************************)
\* a line typed at the prompt; input() returns it without its line break
InputChars == {"0", "4", "5", "9", "+", "-", " ", "x"}
ConsoleInputs == SeqsUpTo(InputChars, MaxInputLen)
EOF_MARK == <<"EOF">>

\* commit subjects: empty, blank, plain, with a trailing blank
Subjects == {<<>>, <<" ">>, <<"a">>, <<"b">>, <<"a", " ">>}
AllHistories == SeqsUpTo(Subjects, MaxHistory)
SampleHistories ==
    { <<>>, << <<"a">> >>, << <<" ">>, <<>> >>, << <<"b">>, <<>>, <<"a", " ">> >> }

File(text) == [exists |-> TRUE, content |-> text]
NoFile == [exists |-> FALSE, content |-> <<>>]

GradleTokens == {VERSION_CODE, " ", "=", "0", "9", CR, LF, "w"}
GradleSegments ==
    { <<VERSION_CODE, " ", "9">>, <<VERSION_CODE, "=", "9">>,
      <<VERSION_CODE, " ", "=", " ", "0", "9">>, <<VERSION_CODE, LF, "9", "9">>,
      <<CR, LF>>, <<LF>>, <<"w">>, <<" ">> }
AllGradleTexts ==
    SeqsUpTo(GradleTokens, MaxGradleLen)
        \cup {Flatten(ss) : ss \in SeqsUpTo(GradleSegments, MaxGradleSegs)}
SampleGradleFiles ==
    { NoFile, File(<<"w", LF>>), File(<<VERSION_CODE, " ", "9", LF>>),
      File(<<VERSION_CODE, "=", "9", LF>>),
      File(<<"w", CR, LF, VERSION_CODE, " ", "=", " ", "0", "9", CR, LF,
             VERSION_CODE, " ", "9", CR, LF>>) }

PREVIOUS_NOTES == <<"notes of a previous run">>
SampleOutFiles == {NoFile, File(PREVIOUS_NOTES)}

RespTokens ==
    { LANG_TAG_EN, END_TAG_EN, LANG_TAG_AR, END_TAG_AR, LANG_TAG_TR, END_TAG_TR,
      "a", "b", " ", LF }
EnFull == <<LANG_TAG_EN, LF, "a", LF, END_TAG_EN, LF>>
EnBlank == <<LANG_TAG_EN, LF, END_TAG_EN, LF>>
ArFull == <<LANG_TAG_AR, LF, "b", LF, END_TAG_AR, LF>>
ArBlank == <<LANG_TAG_AR, " ", END_TAG_AR, LF>>
TrFull == <<LANG_TAG_TR, " ", "a", "b", LF, END_TAG_TR>>
TrBlank == <<LANG_TAG_TR, END_TAG_TR>>
RespSegments ==
    { EnFull, EnBlank, ArFull, ArBlank, <<LANG_TAG_AR, "b">>, <<"b", END_TAG_AR>>,
      TrFull, TrBlank, <<"a">> }
AllResponses ==
    SeqsUpTo(RespTokens, MaxRespLen)
        \cup {Flatten(ss) : ss \in SeqsUpTo(RespSegments, MaxRespSegs)}
SampleResponses ==
    { en \o ar \o tr : en \in {<<>>, EnBlank, EnFull}, ar \in {<<>>, ArBlank, ArFull},
                       tr \in {<<>>, TrBlank, TrFull} } \cup { <<" ">> }

TextPart(text) == [hasText |-> TRUE, text |-> text]
OtherPart == [hasText |-> FALSE, text |-> <<>>]
SampleParts ==
    { <<>>, <<OtherPart>>, <<TextPart(<<" ", LF>>)>>,
      <<TextPart(EnFull), OtherPart, TextPart(TrFull)>> }
ServiceReplies ==
    { [raises |-> TRUE, textStatus |-> "ok", text |-> <<>>, parts |-> <<>>] }
        \cup { [raises |-> FALSE, textStatus |-> "ok", text |-> r, parts |-> <<>>] :
                 r \in SampleResponses }
        \cup { [raises |-> FALSE, textStatus |-> st, text |-> <<>>, parts |-> ps] :
                 st \in {"ok", "ValueError", "AttributeError"}, ps \in SampleParts }

(***************************************************************************)
(* The steps of main.                                                      *)
(***************************************************************************)
\* sys.exit(1)
Exit1(reason) == pc' = "exited" /\ exitCode' = 1 /\ fatal' = reason

Continue(next) == pc' = next /\ UNCHANGED <<exitCode, fatal>>

\* api_key = get_api_key()
GetApiKey ==
    /\ pc = "api_key"
    /\ \E present \in BOOLEAN :
          IF present THEN Continue("configure") ELSE Exit1("NoApiKey")
    /\ UNCHANGED <<userInput, numCommits, history, gitArgs, commits, gradle,
                   gradleAtStart, stamped, apiCalls, fullResponse, notes, enNote,
                   arNote, trNote, finalOutput, outFile, outFileAtStart, console>>

\* genai.configure(api_key=api_key)
Configure ==
    /\ pc = "configure"
    /\ \E ok \in BOOLEAN :
          IF ok THEN Continue("prompt") ELSE Exit1("ConfigError")
    /\ UNCHANGED <<userInput, numCommits, history, gitArgs, commits, gradle,
                   gradleAtStart, stamped, apiCalls, fullResponse, notes, enNote,
                   arNote, trNote, finalOutput, outFile, outFileAtStart, console>>

\* get_commit_count_from_user: user_input = input(...)
PromptRead ==
    /\ pc = "prompt"
    /\ \E line \in ConsoleInputs \cup {EOF_MARK} :
          IF line = EOF_MARK
          THEN Exit1("InputCancelled") /\ UNCHANGED userInput
          ELSE userInput' = line /\ Continue("validate")
    /\ UNCHANGED <<numCommits, history, gitArgs, commits, gradle,
                   gradleAtStart, stamped, apiCalls, fullResponse, notes, enNote,
                   arNote, trNote, finalOutput, outFile, outFileAtStart, console>>

\* get_commit_count_from_user: the rest of the loop body
PromptValidate ==
    /\ pc = "validate"
    /\ IF CountFromInput(userInput) = 0
       THEN Continue("prompt") /\ UNCHANGED numCommits
       ELSE Continue("git") /\ numCommits' = CountFromInput(userInput)
    /\ userInput' = <<>>
    /\ UNCHANGED <<history, gitArgs, commits, gradle,
                   gradleAtStart, stamped, apiCalls, fullResponse, notes, enNote,
                   arNote, trNote, finalOutput, outFile, outFileAtStart, console>>

\* commits = get_last_commits(num_commits), and main's check of the result
GitStep ==
    /\ pc = "git"
    /\ gitArgs' = Append(gitArgs, numCommits)
    /\ \E tool \in {"ok", "not_found", "failed"} :
          IF numCommits <= 0
          THEN Exit1("NoCommits") /\ UNCHANGED commits
          ELSE IF tool = "not_found"
          THEN Exit1("GitNotFound") /\ UNCHANGED commits
          ELSE IF tool = "failed" \/ history = <<>>
          THEN Exit1("GitFailed") /\ UNCHANGED commits
          ELSE /\ commits' = GetLastCommits(numCommits, history)
               /\ IF commits' = <<>> THEN Exit1("NoCommits") ELSE Continue("stamp")
    /\ UNCHANGED <<userInput, numCommits, history, gradle,
                   gradleAtStart, stamped, apiCalls, fullResponse, notes, enNote,
                   arNote, trNote, finalOutput, outFile, outFileAtStart, console>>

\* increment_version_code(GRADLE_FILE_PATH)
StampStep ==
    /\ pc = "stamp"
    /\ IF ~gradle.exists
       THEN Exit1("GradleMissing") /\ UNCHANGED <<gradle, stamped>>
       ELSE \E io \in {"ok", "read_error", "open_error", "write_error"} :
               IF io = "read_error"
               THEN Exit1("GradleError") /\ UNCHANGED <<gradle, stamped>>
               ELSE IF SearchVersionCode(ReadText(gradle.content)) = <<>>
               THEN Exit1("PatternNotFound") /\ UNCHANGED <<gradle, stamped>>
               ELSE IF io = "open_error"
               THEN Exit1("GradleError") /\ UNCHANGED <<gradle, stamped>>
               ELSE IF io = "write_error"
               THEN Exit1("GradleError") /\ gradle' = File(<<>>) /\ UNCHANGED stamped
               ELSE /\ gradle' = File(StampedBytes(gradle.content))
                    /\ stamped' = stamped + 1
                    /\ Continue("generate")
    /\ UNCHANGED <<userInput, numCommits, history, gitArgs, commits,
                   gradleAtStart, apiCalls, fullResponse, notes, enNote,
                   arNote, trNote, finalOutput, outFile, outFileAtStart, console>>

\* the stamper is run once more on the file it left
StampAgain ==
    /\ pc = "generate"
    /\ stamped < MaxStampRuns
    /\ Continue("stamp")
    /\ UNCHANGED <<userInput, numCommits, history, gitArgs, commits, gradle,
                   gradleAtStart, stamped, apiCalls, fullResponse, notes, enNote,
                   arNote, trNote, finalOutput, outFile, outFileAtStart, console>>

\* generate_and_translate_notes: full_response = generate_content_with_gemini(...)
GenerateStep ==
    /\ pc = "generate"
    /\ \E reply \in ServiceReplies : fullResponse' = GenerateContent(reply)
    /\ apiCalls' = apiCalls + 1
    /\ Continue("parse")
    /\ UNCHANGED <<userInput, numCommits, history, gitArgs, commits, gradle,
                   gradleAtStart, stamped, notes, enNote,
                   arNote, trNote, finalOutput, outFile, outFileAtStart, console>>

\* generate_and_translate_notes: the parsing, and main's check of the bundle
ParseStep ==
    /\ pc = "parse"
    /\ notes' = ParseNotes(fullResponse)
    /\ IF NotesUnusable(notes') THEN Exit1("NoEssentialNotes") ELSE Continue("serialize")
    /\ UNCHANGED <<userInput, numCommits, history, gitArgs, commits, gradle,
                   gradleAtStart, stamped, apiCalls, fullResponse, enNote,
                   arNote, trNote, finalOutput, outFile, outFileAtStart, console>>

\* main: the fallbacks and final_output_string
SerializeStep ==
    /\ pc = "serialize"
    /\ enNote' = EnNote(notes)
    /\ arNote' = ArNote(notes)
    /\ trNote' = TrNote(notes)
    /\ finalOutput' = FinalOutputString(enNote', arNote', trNote')
    /\ Continue("write")
    /\ UNCHANGED <<userInput, numCommits, history, gitArgs, commits, gradle,
                   gradleAtStart, stamped, apiCalls, fullResponse, notes,
                   outFile, outFileAtStart, console>>

\* main: the write of latest-release-note.txt; an IOError is only logged
WriteStep ==
    /\ pc = "write"
    /\ \E io \in {"ok", "open_error", "write_error"} :
          outFile' = IF io = "ok" THEN File(finalOutput)
                     ELSE IF io = "open_error" THEN outFile
                     ELSE File(<<>>)
    /\ Continue("print")
    /\ UNCHANGED <<userInput, numCommits, history, gitArgs, commits, gradle,
                   gradleAtStart, stamped, apiCalls, fullResponse, notes, enNote,
                   arNote, trNote, finalOutput, outFileAtStart, console>>

\* main: print(final_output_string) and the normal end of the process
PrintStep ==
    /\ pc = "print"
    /\ console' = finalOutput
    /\ pc' = "done"
    /\ exitCode' = 0
    /\ UNCHANGED <<fatal, userInput, numCommits, history, gitArgs, commits, gradle,
                   gradleAtStart, stamped, apiCalls, fullResponse, notes, enNote,
                   arNote, trNote, finalOutput, outFile, outFileAtStart>>

(***************************************************************************)
(* Specifications.                                                         *)
(***************************************************************************)
\* what no step has touched yet
Untouched ==
    /\ exitCode = -1
    /\ fatal = "none"
    /\ userInput = <<>>
    /\ notes = EmptyBundle
    /\ enNote = <<>>
    /\ arNote = <<>>
    /\ trNote = <<>>
    /\ finalOutput = <<>>
    /\ console = <<>>

\* a whole run of the program
Init ==
    /\ pc = "api_key"
    /\ Untouched
    /\ numCommits = 0
    /\ history \in SampleHistories
    /\ gitArgs = <<>>
    /\ commits = <<>>
    /\ gradle \in SampleGradleFiles
    /\ gradleAtStart = gradle
    /\ stamped = 0
    /\ apiCalls = 0
    /\ fullResponse = <<>>
    /\ outFile \in SampleOutFiles
    /\ outFileAtStart = outFile

Next ==
    \/ GetApiKey
    \/ Configure
    \/ PromptRead
    \/ PromptValidate
    \/ GitStep
    \/ StampStep
    \/ GenerateStep
    \/ ParseStep
    \/ SerializeStep
    \/ WriteStep
    \/ PrintStep

Spec == Init /\ [][Next]_vars

\* the Commit Source Reader on every history and count
InitReader ==
    /\ pc = "git"
    /\ Untouched
    /\ numCommits \in 1..(MaxHistory + 1)
    /\ history \in AllHistories
    /\ gitArgs = <<>>
    /\ commits = <<>>
    /\ gradle = File(<<VERSION_CODE, " ", "9", LF>>)
    /\ gradleAtStart = gradle
    /\ stamped = 0
    /\ apiCalls = 0
    /\ fullResponse = <<>>
    /\ outFile = NoFile
    /\ outFileAtStart = outFile

NextReader == GitStep

SpecReader == InitReader /\ [][NextReader]_vars

\* the Version Stamper on every descriptor text, run up to MaxStampRuns times
InitStamper ==
    /\ pc = "stamp"
    /\ Untouched
    /\ numCommits = DEFAULT_NUM_COMMITS
    /\ history = << <<"a">> >>
    /\ gitArgs = <<DEFAULT_NUM_COMMITS>>
    /\ commits = << <<"a">> >>
    /\ gradle \in {File(t) : t \in AllGradleTexts}
    /\ gradleAtStart = gradle
    /\ stamped = 0
    /\ apiCalls = 0
    /\ fullResponse = <<>>
    /\ outFile = NoFile
    /\ outFileAtStart = outFile

NextStamper == StampStep \/ StampAgain

SpecStamper == InitStamper /\ [][NextStamper]_vars

\* the Response Parser and the steps after it on every string the client
\* can return (the client strips what it returns)
InitParser ==
    /\ pc = "parse"
    /\ Untouched
    /\ numCommits = DEFAULT_NUM_COMMITS
    /\ history = << <<"a">> >>
    /\ gitArgs = <<DEFAULT_NUM_COMMITS>>
    /\ commits = << <<"a">> >>
    /\ gradle = File(<<VERSION_CODE, " ", "1", "0", LF>>)
    /\ gradleAtStart = File(<<VERSION_CODE, " ", "9", LF>>)
    /\ stamped = 1
    /\ apiCalls = 1
    /\ fullResponse \in {Strip(r) : r \in AllResponses}
    /\ outFile \in SampleOutFiles
    /\ outFileAtStart = outFile

NextParser == ParseStep \/ SerializeStep \/ WriteStep \/ PrintStep

SpecParser == InitParser /\ [][NextParser]_vars

(***************************************************************************)
(* Vocabulary of the properties.                                           *)
(***************************************************************************)
\* the positions of a token in a text
Positions(text, tok) == {i \in 1..Len(text) : text[i] = tok}

\* the text holds exactly one start tag and one end tag of the language, in
\* that order
OneBlock(text, lang) ==
    /\ Cardinality(Positions(text, StartTag(lang))) = 1
    /\ Cardinality(Positions(text, EndTag(lang))) = 1
    /\ \A i \in Positions(text, StartTag(lang)) :
          \A j \in Positions(text, EndTag(lang)) : i < j

\* what stands between the tags of that one block
BlockContent(text, lang) ==
    LET i == CHOOSE k \in Positions(text, StartTag(lang)) : TRUE
        j == CHOOSE k \in Positions(text, EndTag(lang)) : TRUE
    IN  SubSeq(text, i + 1, j - 1)

\* the text holds a start tag of the language with an end tag after it
HasPair(text, lang) ==
    \E i \in Positions(text, StartTag(lang)) :
        \E j \in Positions(text, EndTag(lang)) : i < j

\* the text between the first start tag that has an end tag after it and the
\* first such end tag
FirstPairContent(text, lang) ==
    LET i == Min({k \in Positions(text, StartTag(lang)) :
                     \E j \in Positions(text, EndTag(lang)) : k < j})
        j == Min({k \in Positions(text, EndTag(lang)) : k > i})
    IN  SubSeq(text, i + 1, j - 1)

AllBlank(text) == \A i \in 1..Len(text) : text[i] \in {" ", LF, CR}

\* the nine lines of the output format for three texts
NineLines(en, ar, tr) ==
    <<LANG_TAG_EN, LF>> \o en \o <<LF, END_TAG_EN, LF, LANG_TAG_AR, LF>> \o ar
        \o <<LF, END_TAG_AR, LF, LANG_TAG_TR, LF>> \o tr \o <<LF, END_TAG_TR>>

\* the fatal conditions, by the step that detects them
FatalBeforeGit == {"NoApiKey", "ConfigError", "InputCancelled"}
FatalInGit == {"GitNotFound", "GitFailed", "NoCommits"}
FatalInStamp == {"GradleMissing", "PatternNotFound", "GradleError"}
FatalInNotes == {"NoEssentialNotes"}

\* the descriptor form of the specification at position i: versionCode at a
\* word start, then an optional "=" with optional whitespace around it (or
\* whitespace alone), then a digit
FieldAt(text, i) ==
    /\ text[i] = VERSION_CODE
    /\ i = 1 \/ ~IsWordChar(text[i - 1])
    /\ \E d \in (i + 2)..Len(text) :
          /\ IsDigit(text[d])
          /\ \A k \in (i + 1)..(d - 1) : text[k] = "=" \/ IsSpace(text[k])
          /\ Cardinality({k \in (i + 1)..(d - 1) : text[k] = "="}) <= 1

HasField(text) == \E i \in 1..Len(text) : FieldAt(text, i)

StripAll(lines) == [i \in 1..Len(lines) |-> Strip(lines[i])]

NonEmpty(line) == line # <<>>

(***************************************************************************)
(* Properties.                                                             *)
(***************************************************************************)
\* C1: once the Generation Client has returned the empty string, the run can
\* only end with exit code 1; the descriptor file holds the versionCode it
\* had at the start plus one, and latest-release-note.txt is as it was when
\* the process started.
C1_EmptyGenerationFails ==
    (apiCalls = 1 /\ fullResponse = <<>>) =>
        /\ pc = "parse" \/ (pc = "exited" /\ exitCode = 1)
        /\ gradle.exists
        /\ SearchVersionCode(gradle.content) # <<>>
        /\ CurrentVersionCode(gradle.content)
              = CurrentVersionCode(gradleAtStart.content) + 1
        /\ outFile = outFileAtStart

\* C1 witness: a run ended by an empty generation result, with a file of a
\* previous run in place
C1_Witness ==
    /\ pc = "exited"
    /\ apiCalls = 1
    /\ fullResponse = <<>>
    /\ outFileAtStart.exists

\* C2: the exit code is 0 exactly when the run has reached its end, and then
\* the bundle has a non-empty English note and the formatted notes are on the
\* console, whether or not the file was written; a fatal condition ends the
\* run with exit code 1 and none of the later steps has left a trace.
C2_ExitCodes ==
    /\ (exitCode = 0) <=> (pc = "done")
    /\ (exitCode = 1) <=> (pc = "exited")
    /\ (fatal # "none") <=> (pc = "exited")
    /\ pc = "done" =>
          /\ "en" \in DOMAIN notes
          /\ notes["en"] # <<>>
          /\ finalOutput # <<>>
          /\ console = finalOutput
    /\ pc = "exited" =>
          /\ fatal \in FatalBeforeGit \cup FatalInGit \cup FatalInStamp \cup FatalInNotes
          /\ fatal \in FatalBeforeGit => gitArgs = <<>> /\ commits = <<>>
          /\ fatal \in FatalBeforeGit \cup FatalInGit =>
                stamped = 0 /\ gradle = gradleAtStart
          /\ fatal \in {"GradleMissing", "PatternNotFound"} =>
                stamped = 0 /\ gradle = gradleAtStart
          /\ fatal \in FatalBeforeGit \cup FatalInGit \cup FatalInStamp =>
                apiCalls = 0 /\ notes = EmptyBundle
          /\ finalOutput = <<>>
          /\ outFile = outFileAtStart
          /\ console = <<>>

\* C2 witness: a run that ended with exit code 0 although the file was not
\* written
C2_Witness ==
    /\ pc = "done"
    /\ exitCode = 0
    /\ outFile = outFileAtStart
    /\ outFile # File(finalOutput)

\* C4: the bundle the parser returns is empty or has a non-empty English
\* entry; when the response has no <en-US>...</en-US> pair, or only blanks
\* between the two, the bundle is empty and the run ends with exit code 1.
C4_EnglishMandatory ==
    pc # "parse" =>
        /\ notes = EmptyBundle \/ ("en" \in DOMAIN notes /\ notes["en"] # <<>>)
        /\ (~HasPair(fullResponse, "en")
              \/ AllBlank(FirstPairContent(fullResponse, "en"))) =>
                 notes = EmptyBundle /\ pc = "exited" /\ exitCode = 1

\* C4 witness: a response with an Arabic and a Turkish block and no English
\* one, parsed to the empty bundle
C4_Witness ==
    /\ pc = "exited"
    /\ notes = EmptyBundle
    /\ ~HasPair(fullResponse, "en")
    /\ HasPair(fullResponse, "ar")
    /\ HasPair(fullResponse, "tr")

\* C5: when the response holds one English block with a non-blank content
\* and one Turkish block, the bundle's en and tr are the trimmed contents of
\* these blocks whatever Arabic tags and text the response holds; ar is in
\* the bundle exactly when an <ar> has an </ar> after it, and the parsing is
\* not fatal.
C5_IndependentParsing ==
    (/\ pc # "parse"
     /\ OneBlock(fullResponse, "en")
     /\ ~AllBlank(BlockContent(fullResponse, "en"))
     /\ OneBlock(fullResponse, "tr")) =>
        /\ pc # "exited"
        /\ "en" \in DOMAIN notes
        /\ notes["en"] = Strip(BlockContent(fullResponse, "en"))
        /\ "tr" \in DOMAIN notes
        /\ notes["tr"] = Strip(BlockContent(fullResponse, "tr"))
        /\ ("ar" \in DOMAIN notes) <=> HasPair(fullResponse, "ar")

\* C5 witness: an English and a Turkish block around an <ar> that is never
\* closed, parsed to a bundle without ar
C5_Witness ==
    /\ pc = "serialize"
    /\ OneBlock(fullResponse, "en")
    /\ OneBlock(fullResponse, "tr")
    /\ Positions(fullResponse, LANG_TAG_AR) # {}
    /\ Positions(fullResponse, END_TAG_AR) = {}
    /\ DOMAIN notes = {"en", "tr"}

\* C6: from serialization on, the output text is the nine lines of the
\* format, with the bundle's English entry, and for ar and tr the bundle's
\* entry when it has one and the English text otherwise.
C6_NineLines ==
    pc \in {"write", "print", "done"} =>
        finalOutput =
            NineLines(notes["en"],
                      IF "ar" \in DOMAIN notes THEN notes["ar"] ELSE notes["en"],
                      IF "tr" \in DOMAIN notes THEN notes["tr"] ELSE notes["en"])

\* C6 witness: a finished run whose bundle had no Arabic entry, the file
\* written
C6_Witness ==
    /\ pc = "done"
    /\ "ar" \notin DOMAIN notes
    /\ "tr" \in DOMAIN notes
    /\ outFile = File(finalOutput)

\* C7 (states): the count the prompt returned, and every count the reader is
\* called with, is in 1..49; a cancelled prompt has ended the run at once.
C7_CountInRange ==
    /\ \A i \in 1..Len(gitArgs) : gitArgs[i] \in 1..49
    /\ (pc \notin {"api_key", "configure", "prompt", "validate"}
          /\ fatal \notin FatalBeforeGit) => numCommits \in 1..49
    /\ fatal = "InputCancelled" => exitCode = 1 /\ gitArgs = <<>> /\ numCommits = 0

\* C7 (steps): an empty line returns the default, a line that parses to an
\* integer in 1..49 returns it, any other line only leads back to the prompt.
C7_PromptStep ==
    pc = "validate" =>
        /\ userInput = <<>> => pc' = "git" /\ numCommits' = DEFAULT_NUM_COMMITS
        /\ (IsIntLiteral(userInput) /\ IntValue(userInput) \in 1..49) =>
              pc' = "git" /\ numCommits' = IntValue(userInput)
        /\ (userInput # <<>>
              /\ ~(IsIntLiteral(userInput) /\ IntValue(userInput) \in 1..49)) =>
                 /\ pc' = "prompt"
                 /\ UNCHANGED <<exitCode, fatal, numCommits, history, gitArgs, commits,
                                gradle, stamped, apiCalls, fullResponse, notes,
                                finalOutput, outFile, console>>

C8_Original ==
    (/\ gitArgs # <<>>
     /\ fatal \notin {"GitNotFound", "GitFailed"}
     /\ numCommits < Len(history)) =>
        /\ Len(commits) = numCommits
        /\ \A i \in 1..Len(commits) : ~IsBlank(commits[i])

\* C8 amended: for n below the number of commits the reader returns the
\* non-blank lines among the subjects of the n most recent commits, most
\* recent first, the output trimmed as a whole: at most n lines, and exactly
\* n when none of these n subjects is blank.
C8_NonBlankAmongLastN ==
    (/\ gitArgs # <<>>
     /\ fatal \notin {"GitNotFound", "GitFailed"}
     /\ numCommits < Len(history)) =>
        /\ Len(commits) <= numCommits
        /\ \A i \in 1..Len(commits) : ~IsBlank(commits[i])
        /\ StripAll(commits)
              = SelectSeq(StripAll(SubSeq(history, 1, numCommits)), NonEmpty)
        /\ (\A i \in 1..numCommits : ~IsBlank(history[i])) =>
              Len(commits) = numCommits

\* C8 witness: two lines returned for a count of two in a history of three
C8_Witness ==
    /\ pc = "stamp"
    /\ numCommits = 2
    /\ Len(history) = 3
    /\ Len(commits) = 2

\* C3: when the stamper has returned from a text the pattern matches, the file
\* is the text it was with only the integer of the first match replaced, by
\* its value plus one after one run and by its value plus two after two.
C3_OnlyTheIntegerChanges ==
    (/\ pc = "generate"
     /\ stamped >= 1
     /\ SearchVersionCode(gradleAtStart.content) # <<>>) =>
        /\ SearchVersionCode(gradle.content) # <<>>
        /\ CurrentVersionCode(gradle.content)
              = CurrentVersionCode(gradleAtStart.content) + stamped
        /\ gradle.content
              = SubFirst(gradleAtStart.content,
                         CurrentVersionCode(gradleAtStart.content) + stamped)

\* C9: the stamper reports PatternNotFound only for a text without the
\* field, and then leaves the file as it was; versionCode 7, versionCode = 7
\* and versionCode=7 are all stamped.
C9_EveryFormAccepted ==
    fatal = "PatternNotFound" =>
        ~HasField(gradleAtStart.content) /\ gradle = gradleAtStart

\* C10: in a run that exits 0, each of the three blocks of the output holds
\* a non-empty text.
C10_NoEmptyBlock ==
    exitCode = 0 =>
        /\ enNote # <<>>
        /\ arNote # <<>>
        /\ trNote # <<>>

====
